---- MODULE Spec2Model ----
(***************************************************************************)
(* Model of libiphb/depend_filter.py (dsme): a filter for the dependency   *)
(* rules written by gcc -MM.  The script parses its options, reads all of  *)
(* stdin, joins continuation lines, and for every line holding a ':'       *)
(* prints the rule again with its prerequisites filtered by dep_filter.    *)
(*                                                                         *)
(* A Python str is modelled as a sequence of one-character strings, so     *)
(* that slicing, searching, counting and comparing are computed character  *)
(* by character as the interpreter does.                                   *)
(***************************************************************************)
EXTENDS Integers, Sequences, FiniteSets, TLC

VARIABLES
    argv,     \* sys.argv[1:] of the run
    stdin,    \* the text the run reads from standard input
    args,     \* the options still to be scanned (next one first)
    DEST,     \* the global DEST: None or the destination directory
    lines,    \* the logical lines the main loop has still to visit
    stdout,   \* the characters printed so far
    stderr,   \* the diagnostic written, if any
    status,   \* "running", then "exit 0" or "exit 1"
    emitted,  \* the (dest, srce) pairs the print statement has formatted
    pc,       \* where the script is
    run,      \* 1 for the first run, 2 when its output is filtered again
    first,    \* what the first run printed, kept for the second
    deps,     \* the argument of a direct call of dep_filter
    ret,      \* what that call returned
    ret2      \* what dep_filter returned for ret

vars == <<argv, stdin, args, DEST, lines, stdout, stderr, status, emitted,
          pc, run, first, deps, ret, ret2>>

(***************************************************************************)
(* Bounds of the model.                                                    *)
(***************************************************************************)
MaxDeps == 4
MaxArgs == 2
MaxPieces == 4

(***************************************************************************)
(* Characters and str primitives.                                          *)
(***************************************************************************)
\* ord(c) for the characters the model uses (ASCII).
ord ==
    [c \in {"\t", "\n", " ", "-", ".", "/", ":", "\\",
            "a", "b", "c", "d", "h", "i", "l", "n", "o", "r", "s", "t",
            "u", "x"} |->
        CASE c = "\t" -> 9   [] c = "\n" -> 10  [] c = " " -> 32
          [] c = "-" -> 45   [] c = "." -> 46   [] c = "/" -> 47
          [] c = ":" -> 58   [] c = "\\" -> 92  [] c = "a" -> 97
          [] c = "b" -> 98   [] c = "c" -> 99   [] c = "d" -> 100
          [] c = "h" -> 104  [] c = "i" -> 105  [] c = "l" -> 108
          [] c = "n" -> 110  [] c = "o" -> 111  [] c = "r" -> 114
          [] c = "s" -> 115  [] c = "t" -> 116  [] c = "u" -> 117
          [] c = "x" -> 120]

\* Python's None: a value that is no str (an element of a str is one
\* character).
None == <<"None">>

\* The characters str.split() without argument splits on.
whitespace == {" ", "\t", "\n"}

Range(s) == {s[i] : i \in 1..Len(s)}

\* s[i:] and s[:i] with Python's 0-based, clamped indices.
slice_from(s, i) == SubSeq(s, i + 1, Len(s))
slice_to(s, i) == SubSeq(s, 1, IF i < Len(s) THEN i ELSE Len(s))

startswith(s, p) == Len(s) >= Len(p) /\ SubSeq(s, 1, Len(p)) = p
endswith(s, p) == Len(s) >= Len(p) /\ SubSeq(s, Len(s) - Len(p) + 1, Len(s)) = p

\* p in s, for strs: p occurs in s as a substring.
contains(s, p) ==
    \E i \in 0..(Len(s) - Len(p)) : SubSeq(s, i + 1, i + Len(p)) = p

\* s.count(c) for a one-character c.
count(s, c) == Cardinality({i \in 1..Len(s) : s[i] = c})

\* s.find(c), s.rfind(c): 0-based index of the first, last c, or -1.
find(s, c) ==
    IF c \in Range(s)
    THEN (CHOOSE i \in 1..Len(s) : s[i] = c /\ \A j \in 1..(i - 1) : s[j] # c) - 1
    ELSE -1
rfind(s, c) ==
    IF c \in Range(s)
    THEN (CHOOSE i \in 1..Len(s) : s[i] = c /\ \A j \in (i + 1)..Len(s) : s[j] # c) - 1
    ELSE -1

\* cmp on integers and on strs (byte-wise lexicographic).
cmp_int(x, y) == IF x < y THEN -1 ELSE IF x > y THEN 1 ELSE 0

RECURSIVE cmp_str(_, _)
cmp_str(a, b) ==
    IF a = <<>> THEN (IF b = <<>> THEN 0 ELSE -1)
    ELSE IF b = <<>> THEN 1
    ELSE IF ord[a[1]] # ord[b[1]] THEN cmp_int(ord[a[1]], ord[b[1]])
    ELSE cmp_str(Tail(a), Tail(b))


\* s.replace("\\\n", " "): every backslash-newline, left to right.
RECURSIVE replace(_)
replace(s) ==
    IF Len(s) < 2 THEN s
    ELSE IF s[1] = "\\" /\ s[2] = "\n"
    THEN <<" ">> \o replace(slice_from(s, 2))
    ELSE <<s[1]>> \o replace(Tail(s))

\* s.split(c) for a one-character separator c.
RECURSIVE split(_, _)
split(s, c) ==
    LET i == find(s, c)
    IN  IF i = -1 THEN <<s>>
        ELSE <<slice_to(s, i)>> \o split(slice_from(s, i + 1), c)

\* s.rsplit(c, 1) of a str holding c.
rsplit1(s, c) == <<slice_to(s, rfind(s, c)), slice_from(s, rfind(s, c) + 1)>>

\* s.split(c, 1) of a str holding c: the text before the first c and the
\* text behind it.
split1(s, c) == <<slice_to(s, find(s, c)), slice_from(s, find(s, c) + 1)>>

\* s.split(): the maximal runs of characters that are not whitespace.
RECURSIVE split_ws(_)
split_ws(s) ==
    IF s = <<>> THEN <<>>
    ELSE IF Head(s) \in whitespace THEN split_ws(Tail(s))
    ELSE LET ends == {i \in 1..Len(s) : s[i] \in whitespace}
             n == IF ends = {} THEN Len(s) + 1
                  ELSE CHOOSE i \in ends : \A j \in ends : i <= j
         IN  <<SubSeq(s, 1, n - 1)>> \o split_ws(SubSeq(s, n, Len(s)))

\* sep.join(l)
RECURSIVE str_join(_, _)
str_join(sep, l) ==
    IF l = <<>> THEN <<>>
    ELSE IF Len(l) = 1 THEN l[1]
    ELSE l[1] \o sep \o str_join(sep, Tail(l))

\* A basename that keeps the directory part.
basename_whole(p) == p

\* os.path.basename(p): what follows the last "/".
basename(p) == slice_from(p, rfind(p, "/") + 1)

\* os.path.join(a, b) of posixpath.
join(a, b) ==
    IF startswith(b, <<"/">>) THEN b
    ELSE IF a = <<>> \/ endswith(a, <<"/">>) THEN a \o b
    ELSE a \o <<"/">> \o b

(***************************************************************************)
(* dep_compare and dep_filter.                                             *)
(***************************************************************************)
\* A comparator that forgets the path depth.
dep_compare_lexical(a, b) == cmp_str(a, b)

\* cmp(a.count("/"), b.count("/")) or cmp(a, b)
dep_compare(a, b) ==
    LET c == cmp_int(count(a, "/"), count(b, "/"))
    IN  IF c # 0 THEN c ELSE cmp_str(a, b)

\* list.sort(dep_compare): a stable sort; x goes behind the entries that
\* do not compare greater than it.
RECURSIVE insort(_, _)
insort(l, x) ==
    IF l = <<>> THEN <<x>>
    ELSE IF dep_compare(x, Head(l)) < 0 THEN <<x>> \o l
    ELSE <<Head(l)>> \o insort(Tail(l), x)

RECURSIVE sort(_)
sort(l) ==
    IF l = <<>> THEN <<>>
    ELSE insort(sort(SubSeq(l, 1, Len(l) - 1)), l[Len(l)])

\* The for loop of dep_filter: src is a list, hdr a dict whose values are
\* all None, modelled as the set of its keys.
RECURSIVE classify(_, _, _)
classify(ds, src, hdr) ==
    IF ds = <<>> THEN [src |-> src, hdr |-> hdr]
    ELSE LET dep == Head(ds)
         IN  IF endswith(dep, <<".", "c">>)
             THEN classify(Tail(ds), Append(src, dep), hdr)
             ELSE IF startswith(dep, <<"/">>)
             THEN classify(Tail(ds), src, hdr)
             ELSE IF dep \notin hdr
             THEN classify(Tail(ds), src, hdr \cup {dep})
             ELSE classify(Tail(ds), src, hdr)

\* hdr.keys(): the keys in the dict's own order, which the script does not
\* control: every order is possible.
keys(hdr) ==
    {k \in [1..Cardinality(hdr) -> hdr] :
        \A i, j \in 1..Cardinality(hdr) : i # j => k[i] # k[j]}

\* dep_filter with the root test made before the suffix test.
dep_filter_abs_first(ds) ==
    LET RECURSIVE loop(_, _, _)
        loop(d, src, hdr) ==
            IF d = <<>> THEN [src |-> src, hdr |-> hdr]
            ELSE IF startswith(Head(d), <<"/">>) THEN loop(Tail(d), src, hdr)
            ELSE IF endswith(Head(d), <<".", "c">>)
            THEN loop(Tail(d), Append(src, Head(d)), hdr)
            ELSE loop(Tail(d), src, hdr \cup {Head(d)})
        c == loop(ds, <<>>, {})
    IN  {c.src \o sort(k) : k \in keys(c.hdr)}

\* dep_filter returning the headers before the sources.
dep_filter_hdr_first(ds) ==
    LET c == classify(ds, <<>>, {})
    IN  {sort(k) \o c.src : k \in keys(c.hdr)}

\* dep_filter collecting the headers in a list, without the "in hdr" test.
dep_filter_hdr_list(ds) ==
    LET c == classify(ds, <<>>, {})
        h == SelectSeq(ds, LAMBDA d : d \in c.hdr)
    IN  {c.src \o sort(h)}

\* dep_filter(deps): the set of lists the call can return (one for each
\* order hdr.keys() can have).
dep_filter(ds) ==
    LET c == classify(ds, <<>>, {})
    IN  {c.src \o sort(k) : k \in keys(c.hdr)}

(***************************************************************************)
(* Direct calls of dep_filter on bounded prerequisite lists.               *)
(***************************************************************************)
a_c == <<"a", ".", "c">>
x_c == <<"/", "x", ".", "c">>
a_h == <<"a", ".", "h">>
b_h == <<"b", ".", "h">>
a_c_h == <<"a", "/", "c", ".", "h">>
stdio_h == <<"/", "u", "s", "r", "/", "i", "n", "c", "l", "u", "d", "e", "/",
             "s", "t", "d", "i", "o", ".", "h">>

Tokens == {a_c, x_c, a_h, b_h, a_c_h, stdio_h}

\* The prerequisites of the rule  a.o: a.c /usr/include/stdio.h b.h a/c.h a.h
Example == <<a_c, stdio_h, b_h, a_c_h, a_h>>

SeqsUpTo(S, n) == UNION {[1..k -> S] : k \in 0..n}

Idle ==
    /\ argv = <<>> /\ stdin = <<>> /\ args = <<>> /\ DEST = None
    /\ lines = <<>> /\ stdout = <<>> /\ stderr = <<>> /\ status = "running"
    /\ emitted = <<>> /\ run = 1
    /\ first = [stdout |-> <<>>, emitted |-> <<>>]

InitFilter ==
    /\ Idle
    /\ deps \in SeqsUpTo(Tokens, MaxDeps) \cup {Example}
    /\ ret = None /\ ret2 = None
    /\ pc = "call"

Call ==
    /\ pc = "call"
    /\ \E r \in dep_filter(deps) : ret' = r
    /\ pc' = "returned"
    /\ UNCHANGED <<argv, stdin, args, DEST, lines, stdout, stderr, status,
                   emitted, run, first, deps, ret2>>

CallAgain ==
    /\ pc = "returned"
    /\ \E r \in dep_filter(ret) : ret2' = r
    /\ pc' = "returned2"
    /\ UNCHANGED <<argv, stdin, args, DEST, lines, stdout, stderr, status,
                   emitted, run, first, deps, ret>>

NextFilter == Call \/ CallAgain

SpecFilter == InitFilter /\ [][NextFilter]_vars

(***************************************************************************)
(* The script: option scanning, then the loop over the logical lines.      *)
(***************************************************************************)
\* What Python takes as true in "if DEST:" and "v or args.pop()".
truthy(x) == x # None /\ x # <<>>

\* "Unknown option: %s" % a, and the newline print adds.
unknown_option(a) ==
    <<"U", "n", "k", "n", "o", "w", "n", " ", "o", "p", "t", "i", "o", "n",
      ":", " ">> \o a \o <<"\n">>

\* The last line of the traceback of args.pop() on an empty list.
index_error ==
    <<"I", "n", "d", "e", "x", "E", "r", "r", "o", "r", ":", " ", "p", "o",
      "p", " ", "f", "r", "o", "m", " ", "e", "m", "p", "t", "y", " ", "l",
      "i", "s", "t", "\n">>

\* The lines of the text split without joining the continuation lines.
logical_lines_unjoined(text) == split(text, "\n")

\* sys.stdin.read().replace("\\\n", " ").split("\n")
logical_lines(text) == split(replace(text), "\n")

\* dest after "if DEST: dest = os.path.join(DEST, os.path.basename(dest))".
target_for(D, dest) == IF truthy(D) THEN join(D, basename(dest)) ELSE dest

\* '%s: %s\n' % (dest, " \\\n  ".join(srce)), and the newline print adds.
format_rule(dest, srce) ==
    dest \o <<":", " ">> \o str_join(<<" ", "\\", "\n", " ", " ">>, srce)
         \o <<"\n">> \o <<"\n">>

\* a = args.pop() with k in "-d": DEST = v or args.pop()
OptDest ==
    /\ pc = "args" /\ args # <<>>
    /\ LET a == Head(args)
           k == slice_to(a, 2)
           v == slice_from(a, 2)
       IN  /\ contains(<<"-", "d">>, k)
           /\ IF truthy(v)
              THEN DEST' = v /\ args' = Tail(args)
              ELSE /\ Tail(args) # <<>>
                   /\ DEST' = Head(Tail(args))
                   /\ args' = Tail(Tail(args))
    /\ UNCHANGED <<argv, stdin, lines, stdout, stderr, status, emitted, pc,
                   run, first, deps, ret, ret2>>

\* The same with no value attached and none left: args.pop() raises
\* IndexError, which nothing catches.
OptMissing ==
    /\ pc = "args" /\ args # <<>>
    /\ contains(<<"-", "d">>, slice_to(Head(args), 2))
    /\ ~truthy(slice_from(Head(args), 2))
    /\ Tail(args) = <<>>
    /\ args' = <<>>
    /\ stderr' = index_error
    /\ status' = "exit 1"
    /\ pc' = "exit"
    /\ UNCHANGED <<argv, stdin, DEST, lines, stdout, emitted, run, first,
                   deps, ret, ret2>>

\* The else branch: the diagnostic and sys.exit(1).
OptUnknown ==
    /\ pc = "args" /\ args # <<>>
    /\ ~contains(<<"-", "d">>, slice_to(Head(args), 2))
    /\ args' = Tail(args)
    /\ stderr' = unknown_option(Head(args))
    /\ status' = "exit 1"
    /\ pc' = "exit"
    /\ UNCHANGED <<argv, stdin, DEST, lines, stdout, emitted, run, first,
                   deps, ret, ret2>>

\* All options scanned: the text is read, joined and split into lines.
ReadInput ==
    /\ pc = "args" /\ args = <<>>
    /\ lines' = logical_lines(stdin)
    /\ pc' = "lines"
    /\ UNCHANGED <<argv, stdin, args, DEST, stdout, stderr, status, emitted,
                   run, first, deps, ret, ret2>>

\* if not ':' in line: continue
SkipLine ==
    /\ pc = "lines" /\ lines # <<>>
    /\ ~contains(Head(lines), <<":">>)
    /\ lines' = Tail(lines)
    /\ UNCHANGED <<argv, stdin, args, DEST, stdout, stderr, status, emitted,
                   pc, run, first, deps, ret, ret2>>

\* A line with ':': split, rewrite the target, filter, print.
EmitRule ==
    /\ pc = "lines" /\ lines # <<>>
    /\ contains(Head(lines), <<":">>)
    /\ LET p == split1(Head(lines), ":")
           dest == target_for(DEST, p[1])
       IN  \E srce \in dep_filter(split_ws(p[2])) :
               /\ stdout' = stdout \o format_rule(dest, srce)
               /\ emitted' = Append(emitted, [dest |-> dest, srce |-> srce])
    /\ lines' = Tail(lines)
    /\ UNCHANGED <<argv, stdin, args, DEST, stderr, status, pc, run, first,
                   deps, ret, ret2>>

\* The loop is over: the script ends with status 0.
Finish ==
    /\ pc = "lines" /\ lines = <<>>
    /\ status' = "exit 0"
    /\ pc' = "done"
    /\ UNCHANGED <<argv, stdin, args, DEST, lines, stdout, stderr, emitted,
                   run, first, deps, ret, ret2>>

\* The output of the finished run is given to a second run of the script
\* with the same command line.
Refeed ==
    /\ pc = "done" /\ run = 1
    /\ run' = 2
    /\ first' = [stdout |-> stdout, emitted |-> emitted]
    /\ stdin' = stdout
    /\ args' = argv
    /\ DEST' = None
    /\ stdout' = <<>>
    /\ emitted' = <<>>
    /\ status' = "running"
    /\ pc' = "args"
    /\ UNCHANGED <<argv, lines, stderr, deps, ret, ret2>>

Next ==
    \/ OptDest
    \/ OptMissing
    \/ OptUnknown
    \/ ReadInput
    \/ SkipLine
    \/ EmitRule
    \/ Finish
    \/ Refeed

Start ==
    /\ args = argv /\ DEST = None /\ lines = <<>> /\ stdout = <<>>
    /\ stderr = <<>> /\ status = "running" /\ emitted = <<>> /\ pc = "args"
    /\ run = 1 /\ first = [stdout |-> <<>>, emitted |-> <<>>]
    /\ deps = <<>> /\ ret = None /\ ret2 = None

(***************************************************************************)
(* Input texts built from pieces, under a few command lines.               *)
(***************************************************************************)
RECURSIVE concat(_)
concat(l) == IF l = <<>> THEN <<>> ELSE Head(l) \o concat(Tail(l))

Pieces ==
    { <<"d", "/", "a", ".", "o", ":">>,
      <<" ", "b", ".", "h">>,
      <<" ", "a", ".", "c">>,
      <<" ", "/", "x", ".", "h">>,
      <<"b", ":">>,
      <<"\\", "\n">>,
      <<"\n">>,
      <<"\\">> }

Texts == {concat(l) : l \in SeqsUpTo(Pieces, MaxPieces)}

dash_d == <<"-", "d">>

SampleArgv ==
    { <<>>,
      <<dash_d, <<"o">>>>,
      <<<<"-", "d", "c", ":">>>>,
      <<dash_d>>,
      <<<<"-", "x">>>> }

Init ==
    /\ argv \in SampleArgv
    /\ stdin \in Texts
    /\ Start

Spec == Init /\ [][Next]_vars

(***************************************************************************)
(* Command lines built from words, over a few input texts.                 *)
(***************************************************************************)
ArgWords ==
    { dash_d,
      <<"-", "d", "l", "i", "b">>,
      <<"b", "u", "i", "l", "d", "/", "o", "u", "t">>,
      <<"d">>,
      <<"-">>,
      <<>>,
      <<"-", "x">> }

\* /abs/path/foo.o: a.c b.h, a line without ':', and a rule without
\* prerequisites.
SampleTexts ==
    { <<"/", "a", "b", "s", "/", "p", "a", "t", "h", "/", "f", "o", "o", ".",
        "o", ":", " ", "a", ".", "c", " ", "b", ".", "h", "\n",
        "n", "o", "t", "e", "\n",
        "a", ".", "o", ":", "\n">>,
      <<"a", ".", "o", ":", " ", "b", ".", "h">> }

InitArgs ==
    /\ argv \in SeqsUpTo(ArgWords, MaxArgs)
    /\ stdin \in SampleTexts
    /\ Start

SpecArgs == InitArgs /\ [][Next]_vars


(***************************************************************************)
(* The three categories of a prerequisite, as the specification has them.  *)
(***************************************************************************)
IsSource(d) == Len(d) >= 2 /\ d[Len(d) - 1] = "." /\ d[Len(d)] = "c"
IsAbsolute(d) == Len(d) >= 1 /\ d[1] = "/"
IsHeader(d) == ~IsSource(d) /\ ~IsAbsolute(d)

Occurrences(l, d) == Cardinality({i \in 1..Len(l) : l[i] = d})
Slashes(d) == Cardinality({i \in 1..Len(d) : d[i] = "/"})

\* a is lexically smaller than b: at the first place where they differ, a
\* has ended or holds the smaller character.
LexLess(a, b) ==
    \E k \in 1..Len(b) :
        /\ \A m \in 1..(k - 1) : m <= Len(a) /\ a[m] = b[m]
        /\ \/ k = Len(a) + 1
           \/ k <= Len(a) /\ ord[a[k]] < ord[b[k]]

\* l with the entries at i and j exchanged.
Swapped(l, i, j) ==
    [k \in 1..Len(l) |-> IF k = i THEN l[j] ELSE IF k = j THEN l[i] ELSE l[k]]

\* C1: no entry of the list dep_filter returns begins with "/", also not
\* one that ends in ".c".
C1_NoAbsoluteInOutput ==
    pc = "returned" => \A i \in 1..Len(ret) : ~IsAbsolute(ret[i])

\* The same for the entries that do not end in ".c".
NoAbsoluteHeaderInOutput ==
    pc = "returned" =>
        \A i \in 1..Len(ret) : IsAbsolute(ret[i]) => IsSource(ret[i])

C4_HeaderOrder ==
    pc = "returned" =>
        /\ \A i, j \in 1..Len(ret) :
               /\ IsHeader(ret[i]) /\ IsHeader(ret[j])
               /\ \/ Slashes(ret[i]) < Slashes(ret[j])
                  \/ /\ Slashes(ret[i]) = Slashes(ret[j])
                     /\ LexLess(ret[i], ret[j])
               => i < j
        /\ \A i, j \in 1..Len(deps) :
               \A r \in dep_filter(Swapped(deps, i, j)) :
                   SelectSeq(r, IsHeader) = SelectSeq(ret, IsHeader)
        /\ deps = Example => ret = <<a_c, a_h, b_h, a_c_h>>

C4_Witness == pc = "returned" /\ deps = Example

\* C5: a header entry that is given once or more is returned exactly once.
C5_HeadersOnce ==
    pc = "returned" =>
        \A i \in 1..Len(deps) :
            IsHeader(deps[i]) => Occurrences(ret, deps[i]) = 1

C5_Witness ==
    /\ pc = "returned"
    /\ \E i, j, k \in 1..Len(deps) :
           /\ i < j /\ j < k
           /\ IsHeader(deps[i]) /\ deps[k] = deps[i] /\ deps[j] # deps[i]
           /\ IsHeader(deps[j])

FilterTwice == pc = "returned2" => ret2 = ret

(***************************************************************************)
(* The input text as the specification reads it: lines, rules, targets.    *)
(***************************************************************************)
\* The newlines that end a logical line: those no backslash stands before.
LineEnds(t) == {i \in 1..Len(t) : t[i] = "\n" /\ (i = 1 \/ t[i - 1] # "\\")}

NthLineEnd(t, k) ==
    CHOOSE i \in LineEnds(t) : Cardinality({j \in LineEnds(t) : j <= i}) = k

\* The logical lines of t as they stand in t, continuations included.
RawLines(t) ==
    [k \in 1..(Cardinality(LineEnds(t)) + 1) |->
        SubSeq(t,
               IF k = 1 THEN 1 ELSE NthLineEnd(t, k - 1) + 1,
               IF k = Cardinality(LineEnds(t)) + 1 THEN Len(t)
               ELSE NthLineEnd(t, k) - 1)]

HasColon(l) == \E i \in 1..Len(l) : l[i] = ":"
RuleLines(t) == SelectSeq(RawLines(t), HasColon)

IsContinuation(l, i) == i < Len(l) /\ l[i] = "\\" /\ l[i + 1] = "\n"
IsContinued(l) == \E i \in 1..Len(l) : IsContinuation(l, i)

\* l with every backslash-newline read as one space.
Unfolded(l) ==
    SelectSeq([i \in 1..Len(l) |->
                  IF IsContinuation(l, i) THEN " " ELSE l[i]],
              LAMBDA c : c # "\n")

FirstColon(l) == CHOOSE i \in 1..Len(l) : l[i] = ":" /\ \A j \in 1..(i - 1) : l[j] # ":"
TargetOf(l) == Unfolded(SubSeq(l, 1, FirstColon(l) - 1))
RestOf(l) == SubSeq(l, FirstColon(l) + 1, Len(l))

\* The physical lines of a logical line, and their tokens taken together.
RECURSIVE PhysicalLines(_)
PhysicalLines(l) ==
    IF IsContinued(l)
    THEN LET i == CHOOSE i \in 1..Len(l) :
                      IsContinuation(l, i) /\ \A j \in 1..(i - 1) : ~IsContinuation(l, j)
         IN  <<SubSeq(l, 1, i - 1)>> \o PhysicalLines(SubSeq(l, i + 2, Len(l)))
    ELSE <<l>>

RECURSIVE TokensOfAll(_)
TokensOfAll(ls) ==
    IF ls = <<>> THEN <<>> ELSE split_ws(Head(ls)) \o TokensOfAll(Tail(ls))

PhysTokens(l) == TokensOfAll(PhysicalLines(RestOf(l)))

\* The part of a target behind its last "/".
Base(t) ==
    LET at == {i \in 1..Len(t) : t[i] = "/"}
    IN  IF at = {} THEN t
        ELSE SubSeq(t, (CHOOSE i \in at : \A j \in at : j <= i) + 1, Len(t))

\* The option scanning the specification describes: a bare -d takes the next
\* argument as its value, -dD holds its value; the value of the last -d,
\* or cur when there is none.
RECURSIVE DashD(_, _)
DashD(as, cur) ==
    IF as = <<>> THEN cur
    ELSE IF Head(as) = dash_d
    THEN (IF Len(as) >= 2 THEN DashD(Tail(Tail(as)), as[2]) ELSE cur)
    ELSE IF Len(Head(as)) > 2 /\ SubSeq(Head(as), 1, 2) = dash_d
    THEN DashD(Tail(as), SubSeq(Head(as), 3, Len(Head(as))))
    ELSE DashD(Tail(as), cur)

\* That scanning reaches an argument that is not the -d option.
RECURSIVE ReachesOther(_)
ReachesOther(as) ==
    IF as = <<>> THEN FALSE
    ELSE IF Head(as) = dash_d
    THEN (IF Len(as) >= 2 THEN ReachesOther(Tail(Tail(as))) ELSE FALSE)
    ELSE IF Len(Head(as)) > 2 /\ SubSeq(Head(as), 1, 2) = dash_d
    THEN ReachesOther(Tail(as))
    ELSE TRUE

\* The words -, d and the empty one, which "k in '-d'" lets pass.
ShortWords == {<<"-">>, <<"d">>, <<>>}
HasShortWord(as) == \E i \in 1..Len(as) : as[i] \in ShortWords

\* C2: once option scanning reaches an argument that is not the -d option
\* (the arguments -, d and the empty one included) the run writes the
\* 'Unknown option' diagnostic and ends with a non-zero status, and no
\* input line is processed.
C2_UnknownOptionExits ==
    ReachesOther(argv) =>
        /\ pc \in {"args", "exit"}
        /\ pc = "exit" =>
               /\ SubSeq(stderr, 1, 14) =
                      <<"U", "n", "k", "n", "o", "w", "n", " ", "o", "p", "t",
                        "i", "o", "n">>
               /\ status = "exit 1"
               /\ stdout = <<>> /\ emitted = <<>>

\* The same for command lines without the words -, d and the empty one.
UnknownOptionExits_LongWords ==
    ReachesOther(argv) /\ ~HasShortWord(argv) =>
        /\ pc \in {"args", "exit"}
        /\ pc = "exit" =>
               /\ SubSeq(stderr, 1, 14) =
                      <<"U", "n", "k", "n", "o", "w", "n", " ", "o", "p", "t",
                        "i", "o", "n">>
               /\ status = "exit 1"
               /\ stdout = <<>> /\ emitted = <<>>

\* C7: with a destination D given by -d (attached or as the next argument,
\* the last one if several; an empty value names no directory and is left
\* open here) every printed target is D joined with the part of the input
\* target behind its last "/"; without any -d the printed target is the
\* input target.
C7_TargetRewritten ==
    pc = "done" /\ run = 1 =>
        LET D == DashD(argv, None)
        IN  \A i \in 1..Len(emitted) :
                /\ D = None => emitted[i].dest = TargetOf(RuleLines(stdin)[i])
                /\ D # None /\ D # <<>> =>
                       emitted[i].dest =
                           join(D, Base(TargetOf(RuleLines(stdin)[i])))

\* The same for command lines without the words -, d and the empty one.
TargetRewritten_LongWords ==
    ~HasShortWord(argv) => C7_TargetRewritten

\* C6: a finished run has printed one rule for each logical line holding a
\* ':', in the order of these lines, and nothing else; the target of a rule
\* is the text before the first ':' of its line (rewritten if a
\* destination is set), its prerequisites are the filtered tokens behind
\* that ':', and an empty list if these are none or all absolute headers.
C6_OneRulePerColonLine ==
    pc = "done" =>
        LET rules == RuleLines(stdin)
        IN  /\ Len(emitted) = Len(rules)
            /\ \A i \in 1..Len(rules) :
                   /\ emitted[i].dest = target_for(DEST, TargetOf(rules[i]))
                   /\ emitted[i].srce \in
                          dep_filter(split_ws(Unfolded(RestOf(rules[i]))))
                   /\ (\A d \in Range(split_ws(Unfolded(RestOf(rules[i])))) :
                           IsAbsolute(d) /\ ~IsSource(d))
                      => emitted[i].srce = <<>>
            /\ stdout = concat([i \in 1..Len(emitted) |->
                           format_rule(emitted[i].dest, emitted[i].srce)])

C6_Witness ==
    /\ pc = "done" /\ run = 1
    /\ \E k \in 1..Len(RawLines(stdin)) :
           RawLines(stdin)[k] # <<>> /\ ~HasColon(RawLines(stdin)[k])
    /\ Len(emitted) = 1
    /\ Len(RuleLines(stdin)) = 1
    /\ count(RuleLines(stdin)[1], ":") = 2
    /\ emitted[1].dest = <<"d", "/", "a", ".", "o">>

\* C8: a rule spread over several physical lines by backslash-newline
\* gives one printed rule, whose prerequisites are the filtered tokens of
\* all its physical lines taken together.
C8_ContinuationJoined ==
    pc = "done" =>
        LET rules == RuleLines(stdin)
        IN  /\ Len(emitted) = Len(rules)
            /\ \A i \in 1..Len(rules) :
                   IsContinued(rules[i]) =>
                       emitted[i].srce \in dep_filter(PhysTokens(rules[i]))

C8_Witness ==
    /\ pc = "done" /\ run = 1
    /\ Len(emitted) = 1
    /\ Len(RuleLines(stdin)) = 1
    /\ LET ph == PhysicalLines(RestOf(RuleLines(stdin)[1]))
       IN  /\ Len(ph) = 2
           /\ split_ws(ph[1]) = <<b_h>>
           /\ split_ws(ph[2]) = <<a_c>>
    /\ emitted[1].srce = <<a_c, b_h>>

\* C10: the second run prints what the first run printed.
C10_Idempotent ==
    pc = "done" /\ run = 2 => stdout = first.stdout

\* No printed rule of the first run ends in a prerequisite that ends in a
\* backslash.
NoTrailingBackslash ==
    \A i \in 1..Len(first.emitted) :
        LET l == first.emitted[i].srce
        IN  l # <<>> => l[Len(l)][Len(l[Len(l)])] # "\\"

\* C10, amended: the second run prints what the first run printed if the
\* destination holds no ':' and no printed rule ends in a prerequisite
\* that ends in a backslash; filtering a filtered list again returns it
\* unchanged, and rewriting a rewritten target again leaves it unchanged.
C10_IdempotentAmended ==
    /\ \A i \in 1..Len(emitted) :
           /\ dep_filter(emitted[i].srce) = {emitted[i].srce}
           /\ target_for(DEST, emitted[i].dest) = emitted[i].dest
    /\ (/\ pc = "done" /\ run = 2
        /\ ~HasColon(DEST)
        /\ NoTrailingBackslash)
       => stdout = first.stdout /\ emitted = first.emitted

C10_Witness ==
    /\ pc = "done" /\ run = 2
    /\ DEST = <<"o">>
    /\ Len(emitted) = 1
    /\ emitted[1].srce = <<a_c, b_h>>
    /\ emitted[1].dest = <<"o", "/", "a", ".", "o">>
    /\ stdout = first.stdout

====
